---- MODULE Spec2Model ----
(***************************************************************************)
(* Composition converter (Wt% <-> At%): the atomic mass table, its loader, *)
(* the composition parser, the sum validator and the two conversions of    *)
(* 02_GUI.py, and the table generator of 01_get_atomic_weight.py.          *)
(*                                                                         *)
(* Numbers.  Python floats are modelled as exact rationals <<sign, n, d>>  *)
(* of naturals of any size.  Every decimal text denotes exactly its        *)
(* decimal value; IEEE-754 rounding is not modelled.  A Python value keeps *)
(* its type tag (int, float, str), since the literal form of the parser    *)
(* returns whatever the literal holds.                                     *)
(*                                                                         *)
(* Dicts.  A Python dict is a sequence of items [k, v] with pairwise       *)
(* distinct keys, in insertion order.                                      *)
(***************************************************************************)
EXTENDS Integers, Sequences, FiniteSets, TLC

VARIABLES resource, startup, ELEMENT_MOLAR_MASS, input, call, gui

vars == <<resource, startup, ELEMENT_MOLAR_MASS, input, call, gui>>

(***************************************************************************)
(* Natural numbers of any size: the limbs in base 10000, least significant *)
(* first, the most significant one not 0; <<>> is 0.                       *)
(***************************************************************************)
Base == 10 ^ 4

Abs(i) == IF i < 0 THEN -i ELSE i

RECURSIVE Gcd(_, _)
Gcd(a, b) == IF b = 0 THEN a ELSE Gcd(b, a % b)

RECURSIVE ToNat(_)
ToNat(i) == IF i = 0 THEN <<>> ELSE <<i % Base>> \o ToNat(i \div Base)

RECURSIVE Trim(_)
Trim(a) ==
  IF a = <<>> THEN a
  ELSE IF a[Len(a)] = 0 THEN Trim(SubSeq(a, 1, Len(a) - 1))
  ELSE a

Limb(a, i) == IF i <= Len(a) THEN a[i] ELSE 0

RECURSIVE AddFrom(_, _, _, _)
AddFrom(a, b, i, carry) ==
  IF i > Len(a) /\ i > Len(b)
  THEN IF carry = 0 THEN <<>> ELSE <<carry>>
  ELSE LET t == Limb(a, i) + Limb(b, i) + carry
       IN  <<t % Base>> \o AddFrom(a, b, i + 1, t \div Base)

NAdd(a, b) == AddFrom(a, b, 1, 0)

\* a - b, for a >= b
RECURSIVE SubFrom(_, _, _, _)
SubFrom(a, b, i, borrow) ==
  IF i > Len(a) THEN <<>>
  ELSE LET t == a[i] - Limb(b, i) - borrow
       IN  <<t % Base>> \o SubFrom(a, b, i + 1, IF t < 0 THEN 1 ELSE 0)

NSub(a, b) == Trim(SubFrom(a, b, 1, 0))

\* -1, 0, 1 as the limbs from i down compare
RECURSIVE CmpFrom(_, _, _)
CmpFrom(a, b, i) ==
  IF i = 0 THEN 0
  ELSE IF a[i] < b[i] THEN -1
  ELSE IF a[i] > b[i] THEN 1
  ELSE CmpFrom(a, b, i - 1)

NCmp(a, b) ==
  IF Len(a) < Len(b) THEN -1
  ELSE IF Len(a) > Len(b) THEN 1
  ELSE CmpFrom(a, b, Len(a))

\* a * m, for 0 <= m < Base
RECURSIVE MulSmallFrom(_, _, _, _)
MulSmallFrom(a, m, i, carry) ==
  IF i > Len(a)
  THEN IF carry = 0 THEN <<>> ELSE <<carry>>
  ELSE LET t == a[i] * m + carry
       IN  <<t % Base>> \o MulSmallFrom(a, m, i + 1, t \div Base)

NMulSmall(a, m) == IF m = 0 THEN <<>> ELSE MulSmallFrom(a, m, 1, 0)

Shift(a) == IF a = <<>> THEN a ELSE <<0>> \o a

RECURSIVE NMul(_, _)
NMul(a, b) ==
  IF a = <<>> \/ b = <<>> THEN <<>>
  ELSE NAdd(NMulSmall(a, b[1]), Shift(NMul(a, Tail(b))))

\* the value of a, for a below Base * Base
Small(a) == Limb(a, 1) + Base * Limb(a, 2)

(***************************************************************************)
(* Exact rationals <<sign, numerator, denominator>>: sign in {-1, 0, 1},   *)
(* numerator and denominator natural numbers, the denominator not 0.  A    *)
(* fraction of two numbers below Base * Base is in lowest terms; a larger  *)
(* one is kept as computed, so rationals are compared with REq, never      *)
(* with =.                                                                 *)
(***************************************************************************)
Zero == <<0, <<>>, <<1>>>>

Reduce(s, n, d) ==
  IF n = <<>> THEN Zero
  ELSE IF Len(n) <= 2 /\ Len(d) <= 2
  THEN LET g == Gcd(Small(n), Small(d))
       IN  <<s, ToNat(Small(n) \div g), ToNat(Small(d) \div g)>>
  ELSE IF n[1] = 0 /\ d[1] = 0 THEN <<s, Tail(n), Tail(d)>>
  ELSE <<s, n, d>>

\* n/d for integers n and d, d # 0
Rat(n, d) ==
  Reduce(IF n = 0 THEN 0 ELSE IF (n < 0) = (d < 0) THEN 1 ELSE -1,
         ToNat(Abs(n)), ToNat(Abs(d)))

IntQ(i) == Rat(i, 1)

IsZero(x) == x[1] = 0

RNeg(x) == <<-x[1], x[2], x[3]>>
RAbs(x) == <<Abs(x[1]), x[2], x[3]>>

RAdd(x, y) ==
  LET a == NMul(x[2], y[3])
      b == NMul(y[2], x[3])
      d == NMul(x[3], y[3])
      c == NCmp(a, b)
  IN  IF x[1] = 0 THEN y
      ELSE IF y[1] = 0 THEN x
      ELSE IF x[1] = y[1] THEN Reduce(x[1], NAdd(a, b), d)
      ELSE IF c = 0 THEN Zero
      ELSE IF c > 0 THEN Reduce(x[1], NSub(a, b), d)
      ELSE Reduce(y[1], NSub(b, a), d)

RSub(x, y) == RAdd(x, RNeg(y))

RMul(x, y) == Reduce(x[1] * y[1], NMul(x[2], y[2]), NMul(x[3], y[3]))

\* x / y, for y # 0
RDiv(x, y) == Reduce(x[1] * y[1], NMul(x[2], y[3]), NMul(x[3], y[2]))

\* -1, 0, 1 as x is below, equal to or above y
RCmp(x, y) ==
  IF x[1] # y[1] THEN (IF x[1] < y[1] THEN -1 ELSE 1)
  ELSE x[1] * NCmp(NMul(x[2], y[3]), NMul(y[2], x[3]))

REq(x, y) == RCmp(x, y) = 0
RLe(x, y) == RCmp(x, y) <= 0
RLt(x, y) == RCmp(x, y) < 0

\* how many times d goes into n, for n < 10 * d, and what is left
RECURSIVE DigitOf(_, _, _)
DigitOf(n, d, k) ==
  IF NCmp(n, d) < 0 THEN <<k, n>> ELSE DigitOf(NSub(n, d), d, k + 1)

\* <<n \div d, n % d>>, for a quotient below 10^9, by long division in base 10
RECURSIVE DivFrom(_, _, _, _)
DivFrom(n, d, place, q) ==
  LET scaled == NMul(d, ToNat(place))
      digit == DigitOf(n, scaled, 0)
  IN  IF place = 0 THEN <<q, n>>
      ELSE DivFrom(digit[2], d, place \div 10, 10 * q + digit[1])

NDivMod(n, d) == DivFrom(n, d, 100000000, 0)

\* f"{x:.4f}": x rounded to four decimals (ties to even), as the value of the
\* text produced
Fmt4(x) ==
  LET dm == NDivMod(Shift(x[2]), x[3])
      twice == NCmp(NMulSmall(dm[2], 2), x[3])
      up == IF twice > 0 THEN 1
            ELSE IF twice < 0 THEN 0
            ELSE dm[1] % 2
  IN  Rat(x[1] * (dm[1] + up), Base)

(***************************************************************************)
(* Python values, dicts and outcomes                                       *)
(***************************************************************************)
StrKey(s) == [ty |-> "str", s |-> s]
IntKey(s) == [ty |-> "int", s |-> s]
NoKey == [ty |-> "none", s |-> ""]

FloatVal(q) == [ty |-> "float", q |-> q, s |-> ""]
IntVal(i) == [ty |-> "int", q |-> IntQ(i), s |-> ""]
StrVal(s) == [ty |-> "str", q |-> Zero, s |-> s]

Item(k, v) == [k |-> k, v |-> v]

Keys(dict) == [i \in 1..Len(dict) |-> dict[i].k]
Values(dict) == [i \in 1..Len(dict) |-> dict[i].v]

HasKey(dict, k) == \E i \in 1..Len(dict) : dict[i].k = k

\* dict[k] = v: an existing key keeps its position, a new key is appended
SetItem(dict, k, v) ==
  IF HasKey(dict, k)
  THEN [i \in 1..Len(dict) |-> IF dict[i].k = k THEN Item(k, v) ELSE dict[i]]
  ELSE Append(dict, Item(k, v))

\* the outcome of a call: a returned value or a raised exception
Return(v) == [kind |-> "return", msg |-> "", total |-> Zero, element |-> NoKey, value |-> v]
Raise(kind, msg) == [kind |-> kind, msg |-> msg, total |-> Zero, element |-> NoKey, value |-> <<>>]
SumError(total) == [Raise("ValueError", "sum") EXCEPT !.total = total]
\* the error without the name of the element
UnknownElementError_unnamed(k) == Raise("ValueError", "unknown")
UnknownElementError(k) == [Raise("ValueError", "unknown") EXCEPT !.element = k]
ParseError == Raise("ValueError", "format")
ZeroDivisionError == Raise("ZeroDivisionError", "")
TypeError == Raise("TypeError", "")

(***************************************************************************)
(* check_input_composition                                                 *)
(***************************************************************************)
Hundred == IntQ(100)
Tolerance == Rat(1, 100)

\* sum(values): 0 + v1 + v2 + ...; a str operand raises TypeError
RECURSIVE SumFrom(_, _, _)
SumFrom(vals, i, acc) ==
  IF i > Len(vals) THEN Return(acc)
  ELSE IF vals[i].ty = "str" THEN TypeError
  ELSE SumFrom(vals, i + 1, RAdd(acc, vals[i].q))

PySum(vals) == SumFrom(vals, 1, Zero)

\* the deviation taken with its sign
within_tolerance_signed(total) == RLe(RSub(total, Hundred), Tolerance)
\* abs(total - 100) <= 0.01
within_tolerance(total) == RLe(RAbs(RSub(total, Hundred)), Tolerance)

Check(total) ==
  IF total.kind # "return" THEN total
  ELSE IF ~ within_tolerance(total.value) THEN SumError(Fmt4(total.value))
  ELSE Return(<<>>)

check_input_composition(comp_dict) == Check(PySum(Values(comp_dict)))

(***************************************************************************)
(* wt_to_at, at_to_wt                                                      *)
(***************************************************************************)
InTable(table, k) == k.ty = "str" /\ k.s \in DOMAIN table

\* the product in place of the quotient
molar_amount_as_product(wt_percent, mass) == RMul(wt_percent, mass)
\* wt_percent / ELEMENT_MOLAR_MASS[element]
molar_amount(wt_percent, mass) == RDiv(wt_percent, mass)

\* the loop of wt_to_at: molar_amounts so far, or the exception of the first
\* element that raises
RECURSIVE MolarLoop(_, _, _, _)
MolarLoop(wt_dict, table, i, molar_amounts) ==
  IF i > Len(wt_dict) THEN Return(molar_amounts)
  ELSE LET element == wt_dict[i].k
           wt_percent == wt_dict[i].v.q
       IN  IF ~ InTable(table, element) THEN UnknownElementError(element)
           ELSE IF IsZero(table[element.s]) THEN ZeroDivisionError
           ELSE MolarLoop(wt_dict, table, i + 1,
                  SetItem(molar_amounts, element,
                          FloatVal(molar_amount(wt_percent, table[element.s]))))

\* the fraction, not scaled to a percentage
fraction_of(val, total) == RDiv(val, total)
\* (val / total) * 100
percent_of(val, total) == RMul(RDiv(val, total), Hundred)

\* {elem: (val / total) * 100 for elem, val in amounts.items()}
Normalize(amounts, total) ==
  IF Len(amounts) = 0 THEN Return(<<>>)
  ELSE IF IsZero(total) THEN ZeroDivisionError
  ELSE Return([i \in 1..Len(amounts) |->
                 Item(amounts[i].k, FloatVal(percent_of(amounts[i].v.q, total)))])

\* the first exception of the check and the loop, or the percentages
Finish(chk, loop) ==
  IF chk.kind # "return" THEN chk
  ELSE IF loop.kind # "return" THEN loop
  ELSE Normalize(loop.value, PySum(Values(loop.value)).value)

wt_to_at(wt_dict, table) ==
  Finish(check_input_composition(wt_dict), MolarLoop(wt_dict, table, 1, <<>>))

\* the percentage without its weight
mass_contribution_unweighted(at_percent, mass) == at_percent
\* at_percent * ELEMENT_MOLAR_MASS[element]
mass_contribution(at_percent, mass) == RMul(at_percent, mass)

RECURSIVE MassLoop(_, _, _, _)
MassLoop(at_dict, table, i, masses) ==
  IF i > Len(at_dict) THEN Return(masses)
  ELSE LET element == at_dict[i].k
           at_percent == at_dict[i].v.q
       IN  IF ~ InTable(table, element) THEN UnknownElementError(element)
           ELSE MassLoop(at_dict, table, i + 1,
                  SetItem(masses, element,
                          FloatVal(mass_contribution(at_percent, table[element.s]))))

at_to_wt(at_dict, table) ==
  Finish(check_input_composition(at_dict), MassLoop(at_dict, table, 1, <<>>))

(***************************************************************************)
(* 01_get_atomic_weight.py: the generator of the mass-table resource       *)
(***************************************************************************)
None == [ty |-> "none", q |-> Zero, len |-> 0]
Num(q) == [ty |-> "num", q |-> q, len |-> 0]
\* an iterable mass (an interval) of the given length whose first entry is q
Interval(q, len) == [ty |-> "seq", q |-> q, len |-> len]

\* what element(z) gives: it raises, or an element with symbol, mass and
\* mass_number
Element(symbol, mass, mass_number) ==
  [raises |-> FALSE, symbol |-> symbol, mass |-> mass, mass_number |-> mass_number]
NoElement == [raises |-> TRUE, symbol |-> "", mass |-> None, mass_number |-> None]

\* float(x): None is not convertible
PyFloat(x) == IF x.ty = "none" THEN TypeError ELSE Return(x.q)

valid_mass(el) ==
  IF el.mass.ty # "none"
  THEN IF el.mass.ty = "seq"
       THEN IF el.mass.len > 0 THEN Return(el.mass.q) ELSE PyFloat(el.mass_number)
       ELSE PyFloat(el.mass)
  ELSE IF el.mass_number.ty # "none" THEN PyFloat(el.mass_number)
       ELSE Return(Zero)

\* the loop over the atomic numbers; an element that raises is skipped
RECURSIVE MassDict(_, _, _)
MassDict(database, z, mass_dict) ==
  IF z > Len(database) THEN mass_dict
  ELSE LET el == database[z]
           m == valid_mass(el)
       IN  IF el.raises \/ m.kind # "return"
           THEN MassDict(database, z + 1, mass_dict)
           ELSE MassDict(database, z + 1, (el.symbol :> m.value) @@ mass_dict)

generate_and_save_data(database) == MassDict(database, 1, <<>>)

(***************************************************************************)
(* get_element_atomic_masses                                               *)
(***************************************************************************)
Dec(n, d) == Rat(n, d)

FallbackTable ==
  ("H" :> Dec(1008, 1000)) @@ ("He" :> Dec(40026, 10000)) @@
  ("Li" :> Dec(694, 100)) @@ ("Be" :> Dec(90122, 10000)) @@
  ("B" :> Dec(1081, 100)) @@ ("C" :> Dec(12011, 1000)) @@
  ("N" :> Dec(14007, 1000)) @@ ("O" :> Dec(15999, 1000)) @@
  ("F" :> Dec(18998, 1000)) @@ ("Ne" :> Dec(20180, 1000)) @@
  ("Na" :> Dec(22990, 1000)) @@ ("Mg" :> Dec(24305, 1000)) @@
  ("Al" :> Dec(26982, 1000)) @@ ("Si" :> Dec(28085, 1000)) @@
  ("P" :> Dec(30974, 1000)) @@ ("S" :> Dec(3206, 100)) @@
  ("Cl" :> Dec(3545, 100)) @@ ("Ar" :> Dec(39948, 1000)) @@
  ("K" :> Dec(39098, 1000)) @@ ("Ca" :> Dec(40078, 1000)) @@
  ("Sc" :> Dec(44956, 1000)) @@ ("Ti" :> Dec(47867, 1000)) @@
  ("V" :> Dec(50942, 1000)) @@ ("Cr" :> Dec(51996, 1000)) @@
  ("Mn" :> Dec(54938, 1000)) @@ ("Fe" :> Dec(55845, 1000)) @@
  ("Co" :> Dec(58933, 1000)) @@ ("Ni" :> Dec(58693, 1000)) @@
  ("Cu" :> Dec(63546, 1000)) @@ ("Zn" :> Dec(6538, 100))

\* a file that cannot be read taken as one that does not exist
ExistsAndReadable(res) == res.status \notin {"missing", "unreadable"}

\* os.path.exists(filename)
Exists(res) == res.status # "missing"

\* open(filename) and json.load(f): the table, or the exception raised
ReadJson(res) ==
  IF res.status = "ok" THEN Return(res.table)
  ELSE IF res.status = "unreadable" THEN Raise("PermissionError", "")
  ELSE Raise("JSONDecodeError", "")

get_element_atomic_masses(res) ==
  IF ~ Exists(res) THEN Return(FallbackTable)
  ELSE LET read == ReadJson(res)
       IN  IF read.kind = "return" THEN read ELSE Raise("IOError", read.kind)

(***************************************************************************)
(* Text.  A str is a sequence of one-character strings.                    *)
(***************************************************************************)
Lower == {"a", "b", "c", "d", "e", "f", "g", "h", "i", "j", "k", "l", "m",
          "n", "o", "p", "q", "r", "s", "t", "u", "v", "w", "x", "y", "z"}
Upper == {"A", "B", "C", "D", "E", "F", "G", "H", "I", "J", "K", "L", "M",
          "N", "O", "P", "Q", "R", "S", "T", "U", "V", "W", "X", "Y", "Z"}
Alpha == Lower \cup Upper
Digit == {"0", "1", "2", "3", "4", "5", "6", "7", "8", "9"}
Quote == {"'", "\""}
Space == {" ", "\t", "\n"}

DigitValue ==
  ("0" :> 0) @@ ("1" :> 1) @@ ("2" :> 2) @@ ("3" :> 3) @@ ("4" :> 4) @@
  ("5" :> 5) @@ ("6" :> 6) @@ ("7" :> 7) @@ ("8" :> 8) @@ ("9" :> 9)

\* the character at position i, "" past the end
At(str, i) == IF i >= 1 /\ i <= Len(str) THEN str[i] ELSE ""

RECURSIVE Join(_)
Join(chars) == IF chars = <<>> THEN "" ELSE Head(chars) \o Join(Tail(chars))

RECURSIVE SkipWhile(_, _, _)
SkipWhile(str, i, class) ==
  IF At(str, i) \in class THEN SkipWhile(str, i + 1, class) ELSE i

RECURSIVE LastNonSpace(_, _)
LastNonSpace(str, i) ==
  IF i >= 1 /\ str[i] \in Space THEN LastNonSpace(str, i - 1) ELSE i

\* str.strip()
Strip(str) == SubSeq(str, SkipWhile(str, 1, Space), LastNonSpace(str, Len(str)))

RECURSIVE Pow10(_)
Pow10(k) == IF k = 0 THEN 1 ELSE 10 * Pow10(k - 1)

RECURSIVE DigitsValue(_, _)
DigitsValue(chars, acc) ==
  IF chars = <<>> THEN acc
  ELSE DigitsValue(Tail(chars), 10 * acc + DigitValue[Head(chars)])

\* float(text) for a text of digits with at most one "."
DecimalValue(text) ==
  LET dot == SkipWhile(text, 1, Digit)
      int == SubSeq(text, 1, dot - 1)
      frac == SubSeq(text, dot + 1, Len(text))
  IN  Rat(DigitsValue(int \o frac, 0), Pow10(Len(frac)))

(***************************************************************************)
(* eval(clean_str), for the dict displays of str and number literals:      *)
(*   "{" [ atom ":" atom { "," atom ":" atom } [ "," ] ] "}"               *)
(*   atom = quoted str without escapes | ["-"] digits ["." digits]         *)
(* with white space between tokens.  Any other text counts as one on which *)
(* eval raises or gives a value that is no dict (a name such as Fe is      *)
(* undefined, {1} is a set).                                               *)
(***************************************************************************)
NoAtom == [ok |-> FALSE, key |-> NoKey, val |-> StrVal(""), end |-> 0]

RECURSIVE Find(_, _, _)
Find(str, c, i) ==
  IF i > Len(str) THEN 0
  ELSE IF str[i] = c THEN i
  ELSE Find(str, c, i + 1)

StrAtom(str, p) ==
  LET close == Find(str, str[p], p + 1)
      text == Join(SubSeq(str, p + 1, close - 1))
  IN  IF close = 0 THEN NoAtom
      ELSE [ok |-> TRUE, key |-> StrKey(text), val |-> StrVal(text), end |-> close + 1]

NumAtom(str, p) ==
  LET neg == At(str, p) = "-"
      b == IF neg THEN p + 1 ELSE p
      e1 == SkipWhile(str, b, Digit)
      dot == At(str, e1) = "."
      e2 == IF dot THEN SkipWhile(str, e1 + 1, Digit) ELSE e1
      q == DecimalValue(SubSeq(str, b, e2 - 1))
      v == IF neg THEN RNeg(q) ELSE q
      text == Join(SubSeq(str, p, e2 - 1))
  IN  IF e1 = b \/ At(str, e2) \in Alpha \cup {"_", "."} THEN NoAtom
      ELSE IF ~ dot /\ e1 - b > 1 /\ str[b] = "0" THEN NoAtom
      ELSE IF dot
      THEN [ok |-> TRUE, key |-> [ty |-> "float", s |-> text],
            val |-> FloatVal(v), end |-> e2]
      ELSE [ok |-> TRUE, key |-> IntKey(text),
            val |-> [ty |-> "int", q |-> v, s |-> ""], end |-> e2]

Atom(str, p) ==
  IF At(str, p) \in Quote THEN StrAtom(str, p)
  ELSE IF At(str, p) \in Digit \cup {"-"} THEN NumAtom(str, p)
  ELSE NoAtom

NotDict == [isdict |-> FALSE, items |-> <<>>]
Dict(items) == [isdict |-> TRUE, items |-> items]

\* the items from position p on, p following "{" or ","
RECURSIVE DictDisplay(_, _, _)
DictDisplay(str, p, items) ==
  LET p1 == SkipWhile(str, p, Space)
      key == Atom(str, p1)
      p2 == SkipWhile(str, key.end, Space)
      val == Atom(str, SkipWhile(str, p2 + 1, Space))
      p3 == SkipWhile(str, val.end, Space)
      more == SetItem(items, key.key, val.val)
  IN  IF At(str, p1) = "}"
      THEN IF p1 = Len(str) THEN Dict(items) ELSE NotDict
      ELSE IF ~ key.ok \/ At(str, p2) # ":" THEN NotDict
      ELSE IF ~ val.ok THEN NotDict
      ELSE IF At(str, p3) = "," THEN DictDisplay(str, p3 + 1, more)
      ELSE IF At(str, p3) = "}" /\ p3 = Len(str) THEN Dict(more)
      ELSE NotDict

PyEval(clean_str) == DictDisplay(clean_str, 2, <<>>)

(***************************************************************************)
(* parse_composition_input                                                 *)
(***************************************************************************)
NoMatch == [ok |-> FALSE, elem |-> "", val |-> <<>>, end |-> 0]

\* one match of the pattern
\*   ['"]?([A-Za-z][a-z]?)['"]?\s*[:=]\s*(\d+\.?\d*)
\* starting at position p.  Every optional or repeated part is followed by a
\* part that cannot match what it matches, so the greedy choice is the only
\* one and no backtracking changes the result.
MatchAt(str, p) ==
  LET p1 == IF At(str, p) \in Quote THEN p + 1 ELSE p
      p2 == p1 + 1
      p3 == IF At(str, p2) \in Lower THEN p2 + 1 ELSE p2
      p4 == IF At(str, p3) \in Quote THEN p3 + 1 ELSE p3
      p5 == SkipWhile(str, p4, Space)
      p6 == SkipWhile(str, p5 + 1, Space)
      p7 == SkipWhile(str, p6, Digit)
      p8 == IF At(str, p7) = "." THEN p7 + 1 ELSE p7
      p9 == SkipWhile(str, p8, Digit)
  IN  IF At(str, p1) \notin Alpha THEN NoMatch
      ELSE IF At(str, p5) \notin {":", "="} THEN NoMatch
      ELSE IF p7 = p6 THEN NoMatch
      ELSE [ok |-> TRUE, elem |-> Join(SubSeq(str, p1, p3 - 1)),
            val |-> SubSeq(str, p6, p9 - 1), end |-> p9]

\* re.findall: the matches from left to right, each search resuming where
\* the previous match ended
RECURSIVE FindAll(_, _, _)
FindAll(str, p, matches) ==
  IF p > Len(str) THEN matches
  ELSE LET m == MatchAt(str, p)
       IN  IF m.ok THEN FindAll(str, m.end, Append(matches, m))
           ELSE FindAll(str, p + 1, matches)

\* the loop with the first value of a symbol kept
RECURSIVE CompDictFirstWins(_, _, _)
CompDictFirstWins(matches, i, comp_dict) ==
  IF i > Len(matches) THEN comp_dict
  ELSE CompDictFirstWins(matches, i + 1,
         IF HasKey(comp_dict, StrKey(matches[i].elem)) THEN comp_dict
         ELSE SetItem(comp_dict, StrKey(matches[i].elem),
                      FloatVal(DecimalValue(matches[i].val))))

\* for elem, val in matches: comp_dict[elem] = float(val)
RECURSIVE CompDict(_, _, _)
CompDict(matches, i, comp_dict) ==
  IF i > Len(matches) THEN comp_dict
  ELSE CompDict(matches, i + 1,
         SetItem(comp_dict, StrKey(matches[i].elem),
                 FloatVal(DecimalValue(matches[i].val))))

\* the literal rule: the dict eval gives, if the text is brace-delimited and
\* eval gives a dict
LiteralRule(user_str) ==
  LET clean_str == Strip(user_str)
  IN  IF Len(clean_str) > 0 /\ clean_str[1] = "{" /\ clean_str[Len(clean_str)] = "}"
      THEN PyEval(clean_str)
      ELSE NotDict

TokenScan(user_str) ==
  LET matches == FindAll(user_str, 1, <<>>)
  IN  IF matches = <<>> THEN ParseError
      ELSE Return(CompDict(matches, 1, <<>>))

\* the dict of the literal rule if there is one, the token scan otherwise
FirstOf(result, user_str) ==
  IF result.isdict THEN Return(result.items) ELSE TokenScan(user_str)

parse_composition_input(user_str) == FirstOf(LiteralRule(user_str), user_str)

(***************************************************************************)
(* Inputs                                                                  *)
(***************************************************************************)
MaxKeys == 2
MaxLen == 4

\* texts typed into the window or passed to the parser
ExplicitInputs == {
  \* Fe: 98.0, C: 2.0
  <<"F", "e", ":", " ", "9", "8", ".", "0", ",", " ", "C", ":", " ", "2", ".", "0">>,
  \* {"Fe": 98.0, "C": 2.0}
  <<"{", "\"", "F", "e", "\"", ":", " ", "9", "8", ".", "0", ",", " ", "\"", "C", "\"", ":", " ", "2", ".", "0", "}">>,
  \* gibberish
  <<"g", "i", "b", "b", "e", "r", "i", "s", "h">>,
  \* {}
  <<"{", "}">>,
  \*  { } 
  <<" ", "{", " ", "}", " ">>,
  \* {1}
  <<"{", "1", "}">>,
  \* {1: 2}
  <<"{", "1", ":", " ", "2", "}">>,
  \* {'Fe': '98', 'C': 2}
  <<"{", "'", "F", "e", "'", ":", " ", "'", "9", "8", "'", ",", " ", "'", "C", "'", ":", " ", "2", "}">>,
  \* {'Fe': 100, 'Fe': 40}
  <<"{", "'", "F", "e", "'", ":", " ", "1", "0", "0", ",", " ", "'", "F", "e", "'", ":", " ", "4", "0", "}">>,
  \* {Fe: 98, C: 2}
  <<"{", "F", "e", ":", " ", "9", "8", ",", " ", "C", ":", " ", "2", "}">>,
  \* {'Fe': 200, 'C': -100}
  <<"{", "'", "F", "e", "'", ":", " ", "2", "0", "0", ",", " ", "'", "C", "'", ":", " ", "-", "1", "0", "0", "}">>,
  \* {'Xx': 100.0}
  <<"{", "'", "X", "x", "'", ":", " ", "1", "0", "0", ".", "0", "}">>,
  \* {'C': 0, 'Xx': 100}
  <<"{", "'", "C", "'", ":", " ", "0", ",", " ", "'", "X", "x", "'", ":", " ", "1", "0", "0", "}">>,
  \* {'Fe': 98, 'C': 2
  <<"{", "'", "F", "e", "'", ":", " ", "9", "8", ",", " ", "'", "C", "'", ":", " ", "2">>,
  \* Fe=50 C=50
  <<"F", "e", "=", "5", "0", " ", "C", "=", "5", "0">>,
  \* Fe:50, Xx:50
  <<"F", "e", ":", "5", "0", ",", " ", "X", "x", ":", "5", "0">>,
  \* Yy:50, Xx:50
  <<"Y", "y", ":", "5", "0", ",", " ", "X", "x", ":", "5", "0">>,
  \* Fe:90, C:5
  <<"F", "e", ":", "9", "0", ",", " ", "C", ":", "5">>,
  \* Fe:90.12346, C:5
  <<"F", "e", ":", "9", "0", ".", "1", "2", "3", "4", "6", ",", " ", "C", ":", "5">>,
  \* Fe:90, Xx:5
  <<"F", "e", ":", "9", "0", ",", " ", "X", "x", ":", "5">>,
  \* Fe:1 C:2. Fe:98
  <<"F", "e", ":", "1", " ", "C", ":", "2", ".", " ", "F", "e", ":", "9", "8">>,
  \* FeC:100
  <<"F", "e", "C", ":", "1", "0", "0">>,
  \* aB:1c:2
  <<"a", "B", ":", "1", "c", ":", "2">>,
  \* Fe:.5
  <<"F", "e", ":", ".", "5">>,
  \* Fe:-5
  <<"F", "e", ":", "-", "5">>,
  \* Fe:99.5.5
  <<"F", "e", ":", "9", "9", ".", "5", ".", "5">>,
  \* 'Fe' : 98.005\n"C"\t= 2
  <<"'", "F", "e", "'", " ", ":", " ", "9", "8", ".", "0", "0", "5", "\n", "\"", "C", "\"", "\t", "=", " ", "2">>,
  \* 
  <<>>,
  \*   \n
  <<" ", " ", "\n">>
}

\* every text of up to MaxLen characters over an alphabet of the token form
ScanAlphabet == {"F", "e", ":", "1", ".", " "}
ScanInputs == UNION {[1..n -> ScanAlphabet] : n \in 0..MaxLen}

Texts == ExplicitInputs \cup ScanInputs
\* texts typed into the window
TypedTexts == ExplicitInputs \cup {t \in ScanInputs : Len(t) < MaxLen}

Symbols == {"Fe", "C", "Xx", "Yy"}
\* percentages around the tolerance band, and some far from it
Percentages ==
  {IntQ(-100), Zero, Dec(2005, 1000), Dec(2011, 1000), IntQ(98), IntQ(100),
   IntQ(200)}

\* the compositions of up to MaxKeys elements with float values
KeySeqs ==
  {ks \in UNION {[1..n -> Symbols] : n \in 1..MaxKeys} :
     \A i, j \in 1..Len(ks) : i # j => ks[i] # ks[j]}
GridCompositions ==
  UNION {{[i \in 1..Len(ks) |-> Item(StrKey(ks[i]), FloatVal(vs[i]))] :
            vs \in [1..Len(ks) -> Percentages]} : ks \in KeySeqs}

Compositions == GridCompositions

\* what mendeleev holds: iron and carbon with their masses, and a third
\* element whose data varies
Databases ==
  {<<Element("Fe", Num(Dec(55845, 1000)), Num(IntQ(56))),
     Element("C", Interval(Dec(12011, 1000), 2), Num(IntQ(12))), x>> :
     x \in {NoElement,
            Element("Xx", None, None),
            Element("Xx", Interval(Zero, 0), None)}}

(***************************************************************************)
(* State                                                                   *)
(*   resource            the file 01_element_atomic-masses.json            *)
(*   startup             "init" before line 43 of 02_GUI.py has run,       *)
(*                       then "ready" or, if it raised, "fatal"            *)
(*   ELEMENT_MOLAR_MASS  the global table                                  *)
(*   input               what a client of the module has at hand to pass   *)
(*                       to the core functions: a text or a composition    *)
(*   call                the last call of a core function by the client,   *)
(*                       with its outcome; origin is the argument of the   *)
(*                       call whose result was passed on to this one       *)
(*   gui                 the window (main: 02_GUI.py runs as the program): *)
(*                       input_text, result_text and the message box the   *)
(*                       last handler showed (err: the exception it tells) *)
(***************************************************************************)
NoInput == [kind |-> "none", text |-> <<>>, comp |-> <<>>]
TextInput(text) == [kind |-> "text", text |-> text, comp |-> <<>>]
CompInput(comp) == [kind |-> "comp", text |-> <<>>, comp |-> comp]

NoCall == [fn |-> "none", arg |-> <<>>, out |-> Return(<<>>), origin |-> <<>>]
NoGui ==
  [main |-> FALSE, input_text |-> <<>>, box |-> "none", err |-> Return(<<>>),
   result_text |-> <<>>]

\* CompositionApp.__init__: the window opens with an example in the input
\* field
CompositionApp ==
  [NoGui EXCEPT !.main = TRUE,
     !.input_text = <<"F", "e", ":", " ", "9", "8", ".", "0", ",", " ", "C", ":", " ", "2", ".", "0">>]

Init ==
  /\ resource \in {[status |-> st, table |-> <<>>] :
                     st \in {"missing", "unreadable", "malformed"}}
  /\ startup = "init"
  /\ ELEMENT_MOLAR_MASS = <<>>
  /\ input = NoInput
  /\ call = NoCall
  /\ gui = NoGui

\* python 01_get_atomic_weight.py: the file is written anew
Generate(database) ==
  /\ startup = "init"
  /\ resource.status # "unreadable"
  /\ resource' = [status |-> "ok", table |-> generate_and_save_data(database)]
  /\ UNCHANGED <<startup, ELEMENT_MOLAR_MASS, input, call, gui>>

\* 02_GUI.py is loaded, as the program (main) or as a module: line 43
Load(main) ==
  /\ startup = "init"
  /\ LET got == get_element_atomic_masses(resource)
     IN  IF got.kind = "return"
         THEN /\ ELEMENT_MOLAR_MASS' = got.value
              /\ startup' = "ready"
              /\ gui' = IF main THEN CompositionApp ELSE gui
         ELSE /\ startup' = "fatal"
              /\ UNCHANGED <<ELEMENT_MOLAR_MASS, gui>>
  /\ UNCHANGED <<resource, input, call>>

Client == startup = "ready" /\ ~ gui.main

\* the client takes up a text or a composition
Supply ==
  /\ Client
  /\ input = NoInput
  /\ \E in \in {TextInput(text) : text \in Texts} \cup
               {CompInput(comp) : comp \in Compositions} : input' = in
  /\ UNCHANGED <<resource, startup, ELEMENT_MOLAR_MASS, call, gui>>

CallParse ==
  /\ Client
  /\ input.kind = "text"
  /\ call.fn = "none"
  /\ call' = [fn |-> "parse_composition_input", arg |-> input.text,
              out |-> parse_composition_input(input.text), origin |-> <<>>]
  /\ UNCHANGED <<resource, startup, ELEMENT_MOLAR_MASS, input, gui>>

\* the composition at hand: the one supplied, or the one just parsed
HasComposition ==
  \/ input.kind = "comp" /\ call.fn = "none"
  \/ call.fn = "parse_composition_input" /\ call.out.kind = "return"
Composition == IF input.kind = "comp" THEN input.comp ELSE call.out.value

CallWtToAt ==
  /\ Client
  /\ HasComposition
  /\ call' = [fn |-> "wt_to_at", arg |-> Composition,
              out |-> wt_to_at(Composition, ELEMENT_MOLAR_MASS), origin |-> <<>>]
  /\ UNCHANGED <<resource, startup, ELEMENT_MOLAR_MASS, input, gui>>

CallAtToWt ==
  /\ Client
  /\ HasComposition
  /\ call' = [fn |-> "at_to_wt", arg |-> Composition,
              out |-> at_to_wt(Composition, ELEMENT_MOLAR_MASS), origin |-> <<>>]
  /\ UNCHANGED <<resource, startup, ELEMENT_MOLAR_MASS, input, gui>>

\* the result of a conversion is converted back
RoundTrip ==
  /\ Client
  /\ call.fn \in {"wt_to_at", "at_to_wt"}
  /\ call.origin = <<>>
  /\ call.out.kind = "return"
  /\ call' = [fn |-> IF call.fn = "wt_to_at" THEN "at_to_wt" ELSE "wt_to_at",
              arg |-> call.out.value,
              out |-> IF call.fn = "wt_to_at"
                      THEN at_to_wt(call.out.value, ELEMENT_MOLAR_MASS)
                      ELSE wt_to_at(call.out.value, ELEMENT_MOLAR_MASS),
              origin |-> call.arg]
  /\ UNCHANGED <<resource, startup, ELEMENT_MOLAR_MASS, input, gui>>

\* the user types into the empty input field
Type ==
  /\ startup = "ready"
  /\ gui.main
  /\ gui.input_text = <<>>
  /\ \E text \in TypedTexts : gui' = [gui EXCEPT !.input_text = text]
  /\ UNCHANGED <<resource, startup, ELEMENT_MOLAR_MASS, input, call>>

\* the rows of the result table: element, original and converted value
Rows(comp_dict, result_dict) ==
  [i \in 1..Len(comp_dict) |->
     <<comp_dict[i].k, Fmt4(comp_dict[i].v.q), Fmt4(result_dict[i].v.q)>>]

\* the window after a call has failed with an exception
ShowError(window, failed) ==
  IF failed.kind = "ValueError"
  THEN [window EXCEPT !.box = "Calculation Error", !.err = failed]
  ELSE [window EXCEPT !.box = "System Error", !.err = failed]

\* the window after the conversion of the parsed composition
ShowResult(window, comp_dict, result) ==
  IF result.kind # "return" THEN ShowError(window, result)
  ELSE [window EXCEPT !.box = "none", !.err = Return(<<>>),
                      !.result_text = Rows(comp_dict, result.value)]

Convert(window, mode, table, parsed) ==
  IF parsed.kind # "return" THEN ShowError(window, parsed)
  ELSE ShowResult(window, parsed.value,
                  IF mode = "1" THEN wt_to_at(parsed.value, table)
                  ELSE at_to_wt(parsed.value, table))

\* CompositionApp.on_convert: the window after the handler has run
on_convert(window, mode, table) ==
  IF Strip(window.input_text) = <<>>
  THEN [window EXCEPT !.box = "Input Error", !.err = Return(<<>>)]
  ELSE Convert(window, mode, table,
               parse_composition_input(Strip(window.input_text)))

OnConvert(mode) ==
  /\ startup = "ready"
  /\ gui.main
  /\ gui' = on_convert(gui, mode, ELEMENT_MOLAR_MASS)
  /\ UNCHANGED <<resource, startup, ELEMENT_MOLAR_MASS, input, call>>

\* CompositionApp.on_clear
OnClear ==
  /\ startup = "ready"
  /\ gui.main
  /\ gui' = [gui EXCEPT !.input_text = <<>>, !.box = "none", !.err = Return(<<>>),
                       !.result_text = <<>>]
  /\ UNCHANGED <<resource, startup, ELEMENT_MOLAR_MASS, input, call>>

Next ==
  \/ \E database \in Databases : Generate(database)
  \/ \E main \in BOOLEAN : Load(main)
  \/ Supply
  \/ CallParse
  \/ CallWtToAt
  \/ CallAtToWt
  \/ RoundTrip
  \/ Type
  \/ \E mode \in {"1", "2"} : OnConvert(mode)
  \/ OnClear

Spec == Init /\ [][Next]_vars

(***************************************************************************)
(* Properties.  The expected values are computed here from the rational    *)
(* operations alone, not by the operators that model the conversions.      *)
(***************************************************************************)
Conversion == call.fn \in {"wt_to_at", "at_to_wt"}

RECURSIVE SumQ(_)
SumQ(qs) == IF qs = <<>> THEN Zero ELSE RAdd(Head(qs), SumQ(Tail(qs)))

Quantities(comp) == [i \in 1..Len(comp) |-> comp[i].v.q]
Numeric(comp) == \A i \in 1..Len(comp) : comp[i].v.ty # "str"
Deviation(comp) == RAbs(RSub(SumQ(Quantities(comp)), IntQ(100)))

\* the values are numbers that sum to 100 within 0.01
ValidSum(comp) == Numeric(comp) /\ RCmp(Deviation(comp), Rat(1, 100)) <= 0

Absent(comp, i) ==
  ~ (comp[i].k.ty = "str" /\ comp[i].k.s \in DOMAIN ELEMENT_MOLAR_MASS)
KnownKeys(comp) == \A i \in 1..Len(comp) : ~ Absent(comp, i)

\* the table is one of the data model: every mass is positive
PositiveMasses == \A sym \in DOMAIN ELEMENT_MOLAR_MASS : ELEMENT_MOLAR_MASS[sym][1] = 1

Mass(comp, i) == ELEMENT_MOLAR_MASS[comp[i].k.s]
Moles(comp) == [i \in 1..Len(comp) |-> RDiv(comp[i].v.q, Mass(comp, i))]
Near(x, y, eps) == RCmp(RAbs(RSub(x, y)), eps) <= 0

WorkedExample ==
  <<Item(StrKey("Fe"), FloatVal(IntQ(98))), Item(StrKey("C"), FloatVal(IntQ(2)))>>

\* C1: for a composition that sums to 100 within 0.01 and whose keys are all in
\* the mass table, wt_to_at returns a mapping with the keys of the composition,
\* in which element e has the value ((c[e] / M[e]) / SUM_j (c[j] / M[j])) * 100;
\* with Fe = 55.845 and C = 12.011, {Fe: 98.0, C: 2.0} gives Fe about 91.33 and
\* C about 8.67.
C1_WtToAtFormula ==
  (call.fn = "wt_to_at" /\ ValidSum(call.arg) /\ KnownKeys(call.arg)
     /\ PositiveMasses) =>
    /\ call.out.kind = "return"
    /\ Keys(call.out.value) = Keys(call.arg)
    /\ \A i \in 1..Len(call.arg) :
         REq(call.out.value[i].v.q,
             RMul(RDiv(Moles(call.arg)[i], SumQ(Moles(call.arg))), IntQ(100)))
    /\ call.arg = WorkedExample =>
         /\ Near(call.out.value[1].v.q, Rat(9133, 100), Rat(5, 1000))
         /\ Near(call.out.value[2].v.q, Rat(867, 100), Rat(5, 1000))

\* wt_to_at has converted the worked example
C1_Witness ==
  /\ call.fn = "wt_to_at"
  /\ call.arg = WorkedExample
  /\ call.out.kind = "return"
  /\ REq(ELEMENT_MOLAR_MASS["Fe"], Rat(55845, 1000))
  /\ REq(ELEMENT_MOLAR_MASS["C"], Rat(12011, 1000))

\* C3: for a valid input (sum within 0.01 of 100, keys in the table) wt_to_at
\* and at_to_wt return a mapping, and the values of a mapping they return
\* sum to 100, whatever the sum of the input was.
C3_OutputSumsTo100 ==
  Conversion =>
    /\ (ValidSum(call.arg) /\ KnownKeys(call.arg) /\ PositiveMasses) =>
         call.out.kind = "return"
    /\ call.out.kind = "return" =>
         REq(SumQ(Quantities(call.out.value)), IntQ(100))

\* at_to_wt has converted a valid composition whose sum is not 100
C3_Witness ==
  /\ call.fn = "at_to_wt"
  /\ call.origin = <<>>
  /\ ValidSum(call.arg)
  /\ ~ REq(SumQ(Quantities(call.arg)), IntQ(100))
  /\ call.out.kind = "return"

FirstAbsent(comp) ==
  CHOOSE i \in 1..Len(comp) :
    Absent(comp, i) /\ \A j \in 1..(i - 1) : ~ Absent(comp, j)

\* C5: a conversion of a composition that passes the sum check and holds a
\* symbol absent from the mass table fails with the unknown-element error
\* naming the first absent symbol in key order, and returns no mapping.
C5_UnknownElement ==
  (Conversion /\ ValidSum(call.arg) /\ ~ KnownKeys(call.arg) /\ PositiveMasses) =>
    /\ call.out.kind = "ValueError"
    /\ call.out.msg = "unknown"
    /\ call.out.element = call.arg[FirstAbsent(call.arg)].k
    /\ call.out.value = <<>>

\* a conversion of a valid composition with two absent symbols has failed
C5_Witness ==
  /\ Conversion
  /\ ValidSum(call.arg)
  /\ \E i, j \in 1..Len(call.arg) : i < j /\ Absent(call.arg, i) /\ Absent(call.arg, j)
  /\ call.out.msg = "unknown"

\* the argument of the first call of a round trip was valid
ValidOrigin ==
  /\ Conversion
  /\ call.origin # <<>>
  /\ ValidSum(call.origin)
  /\ \A i \in 1..Len(call.origin) :
       call.origin[i].k.ty = "str" /\ call.origin[i].k.s \in DOMAIN ELEMENT_MOLAR_MASS
  /\ PositiveMasses

\* C2 (as stated): for any valid composition c summing to 100 within 0.01, not
\* only those summing to exactly 100, at_to_wt(wt_to_at(c)) and
\* wt_to_at(at_to_wt(c)) equal c within 1e-6 relative tolerance per element.
C2_RoundTripIdentity ==
  ValidOrigin =>
    /\ call.out.kind = "return"
    /\ Keys(call.out.value) = Keys(call.origin)
    /\ \A i \in 1..Len(call.origin) :
         Near(call.out.value[i].v.q, call.origin[i].v.q,
              RMul(Rat(1, 1000000), RAbs(call.origin[i].v.q)))

\* C2 (amended): for any valid composition c whose keys are all in the mass
\* table, at_to_wt(wt_to_at(c)) and wt_to_at(at_to_wt(c)) return c rescaled to
\* the sum 100: element e has the value c[e] * 100 / SUM(c).  They return c
\* itself when c sums to exactly 100, and otherwise differ from it by the
\* relative amount |100 / SUM(c) - 1|, which is at most about 1e-4.
C2_RoundTripRescales ==
  ValidOrigin =>
    /\ call.out.kind = "return"
    /\ Keys(call.out.value) = Keys(call.origin)
    /\ \A i \in 1..Len(call.origin) :
         /\ REq(call.out.value[i].v.q,
                RDiv(RMul(call.origin[i].v.q, IntQ(100)),
                     SumQ(Quantities(call.origin))))
         /\ Near(call.out.value[i].v.q, call.origin[i].v.q,
                 RMul(Rat(10002, 100000000), RAbs(call.origin[i].v.q)))
         /\ REq(SumQ(Quantities(call.origin)), IntQ(100)) =>
              REq(call.out.value[i].v.q, call.origin[i].v.q)

\* a round trip from a valid composition whose sum is not 100 has returned
C2_Witness ==
  /\ ValidOrigin
  /\ call.fn = "at_to_wt"
  /\ ~ REq(SumQ(Quantities(call.origin)), IntQ(100))
  /\ Len(call.origin) > 1
  /\ call.out.kind = "return"

\* C6: a conversion either returns a complete mapping over the key set of its
\* input or fails with the sum error or the unknown-element error; no other
\* failure (a division by a zero total or a zero mass, ...) occurs, for every
\* composition the parser can produce and every mass table.
C6_TypedFailuresOnly ==
  Conversion =>
    \/ call.out.kind = "return" /\ Keys(call.out.value) = Keys(call.arg)
    \/ call.out.kind = "ValueError" /\ call.out.msg \in {"sum", "unknown"}

\* C7: parse_composition_input never returns an empty mapping: when neither
\* rule yields a key/value pair it fails with the parse error.
C7_NeverEmpty ==
  call.fn = "parse_composition_input" =>
    /\ call.out.kind \in {"return", "ValueError"}
    /\ call.out.kind = "return" => Len(call.out.value) > 0
    /\ call.out.kind = "ValueError" => call.out.msg = "format"

\* C9: when the input is in the brace-delimited literal form and evaluates to
\* a mapping, parse_composition_input returns a composition whose keys are all
\* strings and whose values are all floating-point numbers.
C9_LiteralCoerced ==
  (call.fn = "parse_composition_input" /\ LiteralRule(call.arg).isdict) =>
    /\ call.out.kind = "return"
    /\ \A i \in 1..Len(call.out.value) :
         call.out.value[i].k.ty = "str" /\ call.out.value[i].v.ty = "float"

Loaded == startup # "init"
H_to_Zn ==
  {"H", "He", "Li", "Be", "B", "C", "N", "O", "F", "Ne", "Na", "Mg", "Al", "Si",
   "P", "S", "Cl", "Ar", "K", "Ca", "Sc", "Ti", "V", "Cr", "Mn", "Fe", "Co", "Ni",
   "Cu", "Zn"}
GotFallback ==
  /\ startup = "ready"
  /\ DOMAIN ELEMENT_MOLAR_MASS = H_to_Zn
  /\ ELEMENT_MOLAR_MASS = FallbackTable
GotResource == startup = "ready" /\ ELEMENT_MOLAR_MASS = resource.table

\* C10 (as stated): get_element_atomic_masses returns the built-in fallback
\* table (H to Zn) whenever the resource is missing or unreadable, fails with a
\* fatal load error only when the resource is present but malformed, and in
\* every other case returns the table read from the resource.
C10_FallbackWhenUnreadable ==
  Loaded =>
    /\ resource.status \in {"missing", "unreadable"} => GotFallback
    /\ startup = "fatal" <=> resource.status = "malformed"
    /\ resource.status = "ok" => GotResource

\* C10 (amended): get_element_atomic_masses returns the built-in fallback
\* table (H to Zn) exactly when the resource file does not exist; when the file
\* exists but cannot be opened or read, or is malformed, it fails with the
\* fatal load error; in every other case it returns the table read from the
\* file.
C10_FallbackOnlyWhenMissing ==
  Loaded =>
    /\ resource.status = "missing" => GotFallback
    /\ resource.status \in {"unreadable", "malformed"} =>
         startup = "fatal" /\ ELEMENT_MOLAR_MASS = <<>>
    /\ resource.status = "ok" => GotResource

\* the load of a file that exists and cannot be read has failed
C10_Witness == Loaded /\ resource.status = "unreadable" /\ startup = "fatal"

(***************************************************************************)
(* The token form, read as a regular expression: the parts of the pattern  *)
(* with their repetition, and the texts they match.                        *)
(***************************************************************************)
Part(class, rep) == [class |-> class, rep |-> rep]
OpenQuote == <<Part(Quote, "?")>>
SymbolParts == <<Part(Alpha, "1"), Part(Lower, "?")>>
SeparatorParts ==
  <<Part(Quote, "?"), Part(Space, "*"), Part({":", "="}, "1"), Part(Space, "*")>>
NumberParts == <<Part(Digit, "+"), Part({"."}, "?"), Part(Digit, "*")>>

Counts(rep, room) ==
  CASE rep = "1" -> {n \in {1} : n <= room}
    [] rep = "?" -> {n \in {0, 1} : n <= room}
    [] rep = "*" -> 0..room
    [] rep = "+" -> 1..room

\* str[s .. e-1] is matched by the parts from the k-th on
RECURSIVE Matches(_, _, _, _, _)
Matches(str, s, e, parts, k) ==
  IF k > Len(parts) THEN s = e
  ELSE \E n \in Counts(parts[k].rep, e - s) :
         /\ \A i \in s..(s + n - 1) : str[i] \in parts[k].class
         /\ Matches(str, s + n, e, parts, k + 1)

\* the tokens that start at s: symbol, number text and the position after
TokensAt(str, s) ==
  {[elem |-> Join(SubSeq(str, a, b - 1)), val |-> SubSeq(str, c, e - 1), end |-> e] :
     <<a, b, c, e>> \in
       {t \in (s..(s + 1)) \X ((s + 1)..(s + 3)) \X ((s + 2)..(Len(str) + 1))
                \X ((s + 3)..(Len(str) + 1)) :
          /\ t[1] < t[2] /\ t[2] < t[3] /\ t[3] < t[4]
          /\ Matches(str, s, t[1], OpenQuote, 1)
          /\ Matches(str, t[1], t[2], SymbolParts, 1)
          /\ Matches(str, t[2], t[3], SeparatorParts, 1)
          /\ Matches(str, t[3], t[4], NumberParts, 1)}}

Longest(tokens) == CHOOSE t \in tokens : \A u \in tokens : u.end <= t.end

\* the non-overlapping tokens from position p on, in order of appearance: the
\* leftmost one, taken as long as it can be, then those after it
RECURSIVE TokensFrom(_, _)
TokensFrom(str, p) ==
  IF \A s \in p..Len(str) : TokensAt(str, s) = {} THEN <<>>
  ELSE LET s == CHOOSE s \in p..Len(str) :
                  TokensAt(str, s) # {} /\ \A r \in p..(s - 1) : TokensAt(str, r) = {}
           t == Longest(TokensAt(str, s))
       IN  <<t>> \o TokensFrom(str, t.end)

RECURSIVE TenTo(_)
TenTo(k) == IF k = 0 THEN IntQ(1) ELSE RMul(IntQ(10), TenTo(k - 1))

\* the number a decimal text denotes: digit i counts 10^(point - 1 - i) before
\* the point and 1 / 10^(i - point) after it
DecimalOf(text) ==
  LET point == IF \E i \in 1..Len(text) : text[i] = "."
               THEN CHOOSE i \in 1..Len(text) : text[i] = "."
               ELSE Len(text) + 1
      Place(i) == IF i < point
                  THEN RMul(IntQ(DigitValue[text[i]]), TenTo(point - 1 - i))
                  ELSE IF i = point THEN Zero
                  ELSE RDiv(IntQ(DigitValue[text[i]]), TenTo(i - point))
  IN  SumQ([i \in 1..Len(text) |-> Place(i)])

First(tokens, elem) ==
  CHOOSE i \in 1..Len(tokens) :
    tokens[i].elem = elem /\ \A j \in 1..(i - 1) : tokens[j].elem # elem
Last(tokens, elem) ==
  CHOOSE i \in 1..Len(tokens) :
    tokens[i].elem = elem /\ \A j \in (i + 1)..Len(tokens) : tokens[j].elem # elem

\* comp is the mapping the tokens give
MappingOf(comp, tokens) ==
  /\ \A i \in 1..Len(comp) : comp[i].k.ty = "str" /\ comp[i].v.ty = "float"
  /\ {comp[i].k.s : i \in 1..Len(comp)} = {tokens[j].elem : j \in 1..Len(tokens)}
  /\ \A i, j \in 1..Len(comp) :
       i < j => First(tokens, comp[i].k.s) < First(tokens, comp[j].k.s)
  /\ \A i \in 1..Len(comp) :
       REq(comp[i].v.q, DecimalOf(tokens[Last(tokens, comp[i].k.s)].val))

TokenScanned(out, tokens) ==
  IF tokens = <<>>
  THEN out.kind = "ValueError" /\ out.msg = "format"
  ELSE out.kind = "return" /\ MappingOf(out.value, tokens)

\* C8: in the token-scan form (the literal rule gives no mapping),
\* parse_composition_input collects every non-overlapping match of symbol,
\* separator ':' or '=', non-negative decimal, in order of appearance: the
\* mapping returned has one key per distinct matched symbol, the keys in order
\* of first appearance, the value of a symbol that of its last match; without
\* a match the call fails with the parse error.  "Fe: 98.0, C: 2.0" yields
\* {Fe: 98.0, C: 2.0} in that order.
C8_TokenScan ==
  (call.fn = "parse_composition_input" /\ ~ LiteralRule(call.arg).isdict) =>
    /\ TokenScanned(call.out, TokensFrom(call.arg, 1))
    /\ call.arg = <<"F", "e", ":", " ", "9", "8", ".", "0", ",", " ", "C", ":", " ", "2", ".", "0">> =>
         call.out.value = WorkedExample

\* a text in which Fe is matched twice, C between the two, has been parsed
C8_Witness ==
  /\ call.fn = "parse_composition_input"
  /\ call.arg = <<"F", "e", ":", "1", " ", "C", ":", "2", ".", " ", "F", "e", ":", "9", "8">>
  /\ call.out.kind = "return"
  /\ Keys(call.out.value) = <<StrKey("Fe"), StrKey("C")>>
  /\ REq(call.out.value[1].v.q, IntQ(98))

====
